---- MODULE Spec2Model ----
(***************************************************************************)
(* Model of qnet/misc/kerr_model_matrices.py: the coefficient map builder  *)
(* get_coeffs, the matrix assembler model_matrices, the numeric coercion   *)
(* model_matrices_complex and the SDE function builder prepare_sde.        *)
(*                                                                         *)
(* Python lists are sequences (list index n is sequence index n + 1),      *)
(* numpy arrays are sequences of rows, dictionaries are functions whose    *)
(* DOMAIN is the set of keys present.                                      *)
(***************************************************************************)
EXTENDS Integers, Sequences, FiniteSets, TLC

VARIABLES
    pc,        \* position of the caller: which call comes next
    expr,      \* get_coeffs: the expression argument
    epsilon,   \* get_coeffs / model_matrices: the epsilon argument
    ret,       \* get_coeffs: the returned defaultdict
    slh,       \* model_matrices: the SLH model (space, cdim, S, and what the
               \* algebra will answer for its equations of motion and its L)
    dynamic_input_ports,             \* model_matrices: {port_index: input_name}
    apply_kerr_diagonal_correction,  \* model_matrices: the flag argument
    return_eoms,                     \* model_matrices: the flag argument
    inputs_extended,  \* model_matrices: the list handed to slh.coherent_input
    eoms,             \* model_matrices: the equations of motion of the modes
    slh_input_L,      \* model_matrices: slh_input.L.matrix[:, 0]
    matrices,         \* model_matrices: the returned tuple
    numeric_model_matrices,  \* model_matrices_complex: the returned list
    input_fn,         \* prepare_sde: the drive, a function of time
    closure,          \* prepare_sde: what f and g close over
    f_a,              \* f, g: the state vector argument a
    f_t,              \* f, g: the time argument t
    f_value,          \* f, g: the returned value
    again             \* model_matrices: a second call on the same model and
                      \* ports, its arguments and its returned tuple

coeffs_vars == <<expr, ret>>
model_vars == <<slh, dynamic_input_ports, apply_kerr_diagonal_correction, return_eoms,
                inputs_extended, eoms, slh_input_L, matrices>>
sde_vars == <<numeric_model_matrices, input_fn, closure, f_a, f_t, f_value>>
vars == <<pc, epsilon, coeffs_vars, model_vars, sde_vars, again>>

(***************************************************************************)
(* Bounds of the check.                                                    *)
(***************************************************************************)
MaxAddends == 3    \* operands of an OperatorPlus handed to get_coeffs
MaxEps == 2        \* epsilon ranges over 0..MaxEps
MaxModes == 2      \* local factors (modes) of slh.space
MaxPorts == 2      \* slh.cdim

(***************************************************************************)
(* Scalars: complex numbers with rational parts, plus a multiple of one    *)
(* free symbol g (a sympy expression that complex() cannot coerce):        *)
(*     (re + i*im + (sre + i*sim)*g) / d        with d > 0, in lowest     *)
(* terms.  Arithmetic is exact.                                            *)
(***************************************************************************)
Abs(n) == IF n < 0 THEN -n ELSE n

RECURSIVE Gcd(_, _)
Gcd(a, b) == IF b = 0 THEN a ELSE Gcd(b, a % b)

Norm(s) ==
    LET g == Gcd(Gcd(Gcd(Gcd(s.d, Abs(s.re)), Abs(s.im)), Abs(s.sre)), Abs(s.sim))
    IN  [re |-> s.re \div g, im |-> s.im \div g,
         sre |-> s.sre \div g, sim |-> s.sim \div g, d |-> s.d \div g]

Num(r, i) == [re |-> r, im |-> i, sre |-> 0, sim |-> 0, d |-> 1]
SymG == [re |-> 0, im |-> 0, sre |-> 1, sim |-> 0, d |-> 1]

\* float(): the value defaultdict(float) gives a missing key
Zero == Num(0, 0)
\* the coefficient _coeff_term gives a bare term
One == Num(1, 0)

IsScalar(s) ==
    /\ DOMAIN s = {"re", "im", "sre", "sim", "d"}
    /\ s.re \in Int /\ s.im \in Int /\ s.sre \in Int /\ s.sim \in Int
    /\ s.d \in Nat \ {0}

\* a + b
SAdd(a, b) ==
    Norm([re |-> a.re * b.d + b.re * a.d, im |-> a.im * b.d + b.im * a.d,
          sre |-> a.sre * b.d + b.sre * a.d, sim |-> a.sim * b.d + b.sim * a.d,
          d |-> a.d * b.d])

\* a * b, at least one of them numeric
SMul(x, y) ==
    Norm([re |-> x.re * y.re - x.im * y.im, im |-> x.re * y.im + x.im * y.re,
          sre |-> x.re * y.sre - x.im * y.sim + x.sre * y.re - x.sim * y.im,
          sim |-> x.re * y.sim + x.im * y.sre + x.sre * y.im + x.sim * y.re,
          d |-> x.d * y.d])

\* a - b
SSub(x, y) == SAdd(x, SMul(Num(-1, 0), y))

\* c.conjugate() for a numeric c
SConj(c) == [c EXCEPT !.im = -c.im]

\* c / 2.
SHalf(c) == Norm([c EXCEPT !.d = 2 * c.d])

\* c / -2j  =  c * (i/2)
DivMinus2j(c) ==
    Norm([re |-> -c.im, im |-> c.re, sre |-> -c.sim, sim |-> c.sre, d |-> 2 * c.d])

\* complex(c): the complex value, or a TypeError for a symbolic scalar
TypeError == [raised |-> "TypeError"]
complex(c) ==
    IF c.sre = 0 /\ c.sim = 0 THEN [raised |-> "", re |-> c.re, im |-> c.im, d |-> c.d]
    ELSE TypeError

\* abs(z) < eps for a complex value z and eps >= 0, by comparing squares
AbsLt(z, eps) == z.re * z.re + z.im * z.im < eps * eps * z.d * z.d
AbsGt(z, eps) == z.re * z.re + z.im * z.im > eps * eps * z.d * z.d

(***************************************************************************)
(* Expressions of the operator algebra, as far as this module looks at     *)
(* them: an OperatorPlus with its operands, a ScalarTimesOperator with     *)
(* coeff and term, or any other operator expression (a term).              *)
(***************************************************************************)
Term(kind, i, j, name) == [kind |-> kind, i |-> i, j |-> j, name |-> name]

Destroy(s) == Term("Destroy", s, 0, "")
IdentityOperator == Term("IdentityOperator", 0, 0, "")
ZeroOperator == Term("ZeroOperator", 0, 0, "")
\* Create(skk) * Destroy(skk) * Destroy(sjj), in the algebra's canonical order
CreateDestroyDestroy(skk, sjj) == Term("Create*Destroy*Destroy", skk, sjj, "")
\* OperatorSymbol('dA/dt_{n}', TrivialSpace)
NoiseSymbol(n) == Term("dA/dt", n, 0, "")
\* OperatorSymbol('u_{u_name}', TrivialSpace)
InputSymbol(u_name) == Term("u", 0, 0, u_name)
\* a term none of the extraction keys matches
Create(s) == Term("Create", s, 0, "")

ScalarTimesOperator(c, t) == [kind |-> "ScalarTimesOperator", coeff |-> c, term |-> t]
OperatorPlus(ops) == [kind |-> "OperatorPlus", operands |-> ops]

(***************************************************************************)
(* _coeff_term and get_coeffs.                                             *)
(***************************************************************************)
\* a mutant of _coeff_term: the isinstance branch forgotten
_coeff_term_bare(e) == <<One, e>>

_coeff_term(e) ==
    IF e.kind = "ScalarTimesOperator" THEN <<e.coeff, e.term>> ELSE <<One, e>>

EmptyDict == [k \in {} |-> Zero]

\* ret[t]: defaultdict lookup
DictGet(d, t) == IF t \in DOMAIN d THEN d[t] ELSE Zero

\* a mutant of DictAdd: assignment instead of +=
DictAdd_assign(d, t, c) ==
    [k \in DOMAIN d \cup {t} |-> IF k = t THEN c ELSE d[k]]

\* ret[t] += c
DictAdd(d, t, c) ==
    [k \in DOMAIN d \cup {t} |-> IF k = t THEN SAdd(DictGet(d, t), c) ELSE d[k]]

\* a mutant of truncate_test: <= instead of <
truncate_test_le(c, eps) ==
    IF complex(c) = TypeError THEN "pass"
    ELSE IF ~AbsGt(complex(c), eps) THEN "continue" ELSE "keep"

\* a mutant of truncate_test: no try/except, the TypeError propagates
truncate_test_noexcept(c, eps) ==
    IF complex(c) = TypeError THEN "raise"
    ELSE IF AbsLt(complex(c), eps) THEN "continue" ELSE "keep"

\* the try/except of get_coeffs: "continue" skips the addend, "pass" (the
\* except branch) and "keep" go on to the accumulation
truncate_test(c, eps) ==
    IF complex(c) = TypeError THEN "pass"
    ELSE IF AbsLt(complex(c), eps) THEN "continue" ELSE "keep"

\* the for loop of get_coeffs over the operands left, ret being the map so far
RECURSIVE get_coeffs_loop(_, _, _)
get_coeffs_loop(operands, eps, d) ==
    IF operands = <<>> THEN [raised |-> FALSE, ret |-> d]
    ELSE LET ct == _coeff_term(Head(operands))
             c == ct[1]
             t == ct[2]
             test == truncate_test(c, eps)
         IN  IF test = "raise" THEN [raised |-> TRUE, ret |-> d]
             ELSE IF test = "continue" THEN get_coeffs_loop(Tail(operands), eps, d)
             ELSE get_coeffs_loop(Tail(operands), eps, DictAdd(d, t, c))

\* a mutant of get_coeffs: the truncation applied to the accumulated totals
get_coeffs_truncate_total(e, eps) ==
    LET all == get_coeffs_loop(IF e.kind = "OperatorPlus" THEN e.operands ELSE <<e>>,
                               0, EmptyDict).ret
        kept == {k \in DOMAIN all : truncate_test(all[k], eps) # "continue"}
    IN  [raised |-> FALSE, ret |-> [k \in kept |-> all[k]]]

\* get_coeffs(expr, expand=False, epsilon=eps); the expand=True branch hands
\* expr to the algebra's expand() first and is not called by this module
get_coeffs(e, eps) ==
    get_coeffs_loop(IF e.kind = "OperatorPlus" THEN e.operands ELSE <<e>>, eps, EmptyDict)

(***************************************************************************)
(* Inputs of get_coeffs.                                                   *)
(***************************************************************************)
CoeffSamples == {Num(2, 0), Num(-1, 1), SymG}
TermSamples == {Destroy(1), Destroy(2), IdentityOperator}
Addends == TermSamples \cup {ScalarTimesOperator(c, t) : c \in CoeffSamples, t \in TermSamples}
SeqsOfLen(S, n) == [1..n -> S]
Exprs(max) == Addends \cup UNION {{OperatorPlus(ops) : ops \in SeqsOfLen(Addends, n)} : n \in 2..max}

\* the variables of model_matrices while get_coeffs is looked at alone
ModelIdle ==
    /\ slh = [space |-> {}]
    /\ dynamic_input_ports = EmptyDict
    /\ apply_kerr_diagonal_correction = TRUE
    /\ return_eoms = FALSE
    /\ inputs_extended = <<>>
    /\ eoms = <<>>
    /\ slh_input_L = <<>>
    /\ matrices = <<>>
    /\ again = <<>>

\* the variables of prepare_sde while it is not looked at
SdeIdle ==
    /\ numeric_model_matrices = <<>>
    /\ input_fn = <<>>
    /\ closure = <<>>
    /\ f_a = <<>>
    /\ f_t = 0
    /\ f_value = <<>>

InitCoeffs ==
    /\ pc = "call"
    /\ expr \in Exprs(MaxAddends)
    /\ epsilon \in 0..MaxEps
    /\ ret = EmptyDict
    /\ ModelIdle
    /\ SdeIdle

get_coeffs_call ==
    /\ pc = "call"
    /\ LET r == get_coeffs(expr, epsilon)
       IN  /\ pc' = IF r.raised THEN "raised" ELSE "done"
           /\ ret' = r.ret
    /\ UNCHANGED <<expr, epsilon, model_vars, sde_vars, again>>

NextCoeffs == get_coeffs_call

SpecCoeffs == InitCoeffs /\ [][NextCoeffs]_vars

(***************************************************************************)
(* Claims about get_coeffs (under SpecCoeffs).  The claims read an addend  *)
(* by its shape, independently of _coeff_term.                             *)
(***************************************************************************)
AddendsOf(e) == IF e.kind = "OperatorPlus" THEN e.operands ELSE <<e>>
AddendTerm(a) == IF a.kind = "ScalarTimesOperator" THEN a.term ELSE a
AddendCoeff(a) == IF a.kind = "ScalarTimesOperator" THEN a.coeff ELSE Num(1, 0)
\* the terms looked up: those of the inputs and two that never occur
ProbeTerms == TermSamples \cup {Create(1), ZeroOperator}
Occurrences(e, t) == {i \in 1..Len(AddendsOf(e)) : AddendTerm(AddendsOf(e)[i]) = t}
DistinctTerms(e) == \A t \in ProbeTerms : Cardinality(Occurrences(e, t)) <= 1
Numeric(c) == c.sre = 0 /\ c.sim = 0
MagSq(c) == c.re * c.re + c.im * c.im
\* |c| < eps, |c| >= eps for a numeric c and eps >= 0
MagBelow(c, eps) == MagSq(c) < eps * eps * c.d * c.d
MagAtLeast(c, eps) == MagSq(c) >= eps * eps * c.d * c.d

\* C1: with default arguments (epsilon = 0), for a sum of distinct terms
\* the map gives each term its coefficient (1 for a bare addend) and gives
\* 0 for every term that is not an addend.
C1_DistinctSumCoeffs ==
    (pc # "call" /\ epsilon = 0 /\ DistinctTerms(expr)) =>
        /\ pc = "done"
        /\ \A i \in 1..Len(AddendsOf(expr)) :
              DictGet(ret, AddendTerm(AddendsOf(expr)[i])) = AddendCoeff(AddendsOf(expr)[i])
        /\ \A u \in ProbeTerms : Occurrences(expr, u) = {} => DictGet(ret, u) = Num(0, 0)

C1_Witness ==
    /\ pc = "done" /\ epsilon = 0 /\ DistinctTerms(expr)
    /\ Len(AddendsOf(expr)) = 3
    /\ \E i, j \in 1..3 : /\ AddendsOf(expr)[i].kind = "ScalarTimesOperator"
                          /\ ~Numeric(AddendsOf(expr)[i].coeff)
                          /\ AddendsOf(expr)[j].kind # "ScalarTimesOperator"

\* the expression whose addends are ops
SumOf(ops) == IF Len(ops) = 1 THEN ops[1] ELSE OperatorPlus(ops)

\* C2: get_coeffs is additive: for every way of writing expr as e1 + e2
\* (the addends of e1 followed by those of e2) and every term t,
\* get_coeffs(expr)[t] = get_coeffs(e1)[t] + get_coeffs(e2)[t].
C2_Additive ==
    pc = "done" =>
        \A k \in 1..(Len(AddendsOf(expr)) - 1) :
            LET e1 == SumOf(SubSeq(AddendsOf(expr), 1, k))
                e2 == SumOf(SubSeq(AddendsOf(expr), k + 1, Len(AddendsOf(expr))))
            IN  \A t \in ProbeTerms :
                    DictGet(ret, t) = SAdd(DictGet(get_coeffs(e1, epsilon).ret, t),
                                           DictGet(get_coeffs(e2, epsilon).ret, t))

\* e1 and e2 share a term, and both contribute to it
C2_Witness ==
    /\ pc = "done" /\ Len(AddendsOf(expr)) = 3
    /\ \E t \in TermSamples :
          /\ Occurrences(expr, t) = {1, 3}
          /\ t \in DOMAIN get_coeffs(SumOf(SubSeq(AddendsOf(expr), 1, 2)), epsilon).ret
          /\ t \in DOMAIN get_coeffs(AddendsOf(expr)[3], epsilon).ret
          /\ ret[t] # AddendCoeff(AddendsOf(expr)[1])

\* C3: for epsilon > 0, a term (occurring in one addend) whose numeric
\* coefficient has magnitude < epsilon is absent from the map and looks up
\* as 0; one whose magnitude is >= epsilon is present with that coefficient.
C3_Truncation ==
    (pc = "done" /\ epsilon > 0) =>
        \A i \in 1..Len(AddendsOf(expr)) :
            LET c == AddendCoeff(AddendsOf(expr)[i])
                t == AddendTerm(AddendsOf(expr)[i])
            IN  (Numeric(c) /\ Occurrences(expr, t) = {i}) =>
                    /\ MagBelow(c, epsilon) => (t \notin DOMAIN ret /\ DictGet(ret, t) = Num(0, 0))
                    /\ MagAtLeast(c, epsilon) => (t \in DOMAIN ret /\ ret[t] = c)

\* one coefficient below epsilon is dropped, one equal to epsilon is kept
C3_Witness ==
    /\ pc = "done" /\ epsilon > 0 /\ DistinctTerms(expr)
    /\ \E i, j \in 1..Len(AddendsOf(expr)) :
          LET ci == AddendCoeff(AddendsOf(expr)[i])
              cj == AddendCoeff(AddendsOf(expr)[j])
          IN  /\ Numeric(ci) /\ MagBelow(ci, epsilon) /\ ci.im # 0
              /\ AddendTerm(AddendsOf(expr)[i]) \notin DOMAIN ret
              /\ Numeric(cj) /\ MagSq(cj) = epsilon * epsilon
              /\ ret[AddendTerm(AddendsOf(expr)[j])] = cj

\* C4: get_coeffs never raises, and an addend whose coefficient complex()
\* cannot coerce is never dropped: its term is in the map, with that
\* coefficient unchanged when the term occurs in no other addend.
C4_SymbolicKept ==
    /\ pc # "raised"
    /\ pc = "done" =>
        \A i \in 1..Len(AddendsOf(expr)) :
            LET c == AddendCoeff(AddendsOf(expr)[i])
                t == AddendTerm(AddendsOf(expr)[i])
            IN  ~Numeric(c) =>
                    /\ t \in DOMAIN ret
                    /\ Occurrences(expr, t) = {i} => ret[t] = c

\* a symbolic addend kept beside a numeric one that epsilon dropped
C4_Witness ==
    /\ pc = "done" /\ epsilon > 0 /\ DistinctTerms(expr)
    /\ \E i, j \in 1..Len(AddendsOf(expr)) :
          /\ ~Numeric(AddendCoeff(AddendsOf(expr)[i]))
          /\ ret[AddendTerm(AddendsOf(expr)[i])] = AddendCoeff(AddendsOf(expr)[i])
          /\ Numeric(AddendCoeff(AddendsOf(expr)[j]))
          /\ AddendTerm(AddendsOf(expr)[j]) \notin DOMAIN ret

\* whether the addend a survives the truncation by eps, taken on its own
AddendKept(a, eps) == ~Numeric(AddendCoeff(a)) \/ MagAtLeast(AddendCoeff(a), eps)

\* the sum of the coefficients of the addends of t among ops that are kept
RECURSIVE KeptSum(_, _, _)
KeptSum(ops, t, eps) ==
    IF ops = <<>> THEN Num(0, 0)
    ELSE IF AddendTerm(Head(ops)) = t /\ AddendKept(Head(ops), eps)
         THEN SAdd(AddendCoeff(Head(ops)), KeptSum(Tail(ops), t, eps))
         ELSE KeptSum(Tail(ops), t, eps)

\* C10: with epsilon > 0 the truncation test is applied to each addend on
\* its own: map[t] is the sum of the coefficients of exactly the addends of
\* t that are non-numeric or of magnitude >= epsilon, and t is in the map
\* iff there is such an addend.
C10_PerAddendTruncation ==
    (pc = "done" /\ epsilon > 0) =>
        \A t \in ProbeTerms :
            /\ DictGet(ret, t) = KeptSum(AddendsOf(expr), t, epsilon)
            /\ t \in DOMAIN ret <=>
                  \E i \in Occurrences(expr, t) : AddendKept(AddendsOf(expr)[i], epsilon)

\* a term with an addend kept and an addend dropped: the dropped one is
\* missing from map[t] although the total coefficient is not below epsilon
C10_Witness ==
    /\ pc = "done" /\ epsilon > 0
    /\ \E t \in TermSamples :
          /\ \E i, j \in Occurrences(expr, t) :
                /\ ~AddendKept(AddendsOf(expr)[i], epsilon)
                /\ AddendKept(AddendsOf(expr)[j], epsilon)
          /\ Numeric(KeptSum(AddendsOf(expr), t, 0))
          /\ MagAtLeast(KeptSum(AddendsOf(expr), t, 0), epsilon)
          /\ t \in DOMAIN ret
          /\ ret[t] # KeptSum(AddendsOf(expr), t, 0)

(***************************************************************************)
(* The SLH model handed to model_matrices.  The operator algebra is not    *)
(* part of this module: what slh.coherent_input(...).expand() answers for  *)
(* symbolic_heisenberg_eom and for L is fixed by the model record m:       *)
(* every term the matrices are read from occurs, in every row, with a      *)
(* coefficient of its own (Num(p, jj - 1) for addend p of the equation of  *)
(* mode jj, Num(p, -j) for addend p of L[j]), except for one addend (the   *)
(* hole) that is absent, numeric and small, or symbolic; m.kerr says       *)
(* whether the Hamiltonian has Kerr terms at all.                          *)
(***************************************************************************)
\* sorted(S) for a finite set of integers
RECURSIVE sorted(_)
sorted(S) ==
    IF S = {} THEN <<>>
    ELSE LET m == CHOOSE x \in S : \A y \in S : x <= y
         IN  <<m>> \o sorted(S \ {m})

Range(f) == {f[x] : x \in DOMAIN f}

\* a list comprehension, built once: the list with the elements of f
List(f) == f \o <<>>

\* the expression with the addends ops, as the algebra writes it
AsSum(ops) ==
    IF ops = <<>> THEN ZeroOperator
    ELSE IF Len(ops) = 1 THEN ops[1] ELSE OperatorPlus(ops)

\* c * t as the algebra writes it: a coefficient 1 leaves the bare term
Scaled(c, t) == IF c = One THEN t ELSE ScalarTimesOperator(c, t)

Drop(ops, p) == SubSeq(ops, 1, p - 1) \o SubSeq(ops, p + 1, Len(ops))

\* the drive symbols of a per-port drive list, each once, in port order
RECURSIVE DriveSymbols(_)
DriveSymbols(drives) ==
    IF drives = <<>> THEN <<>>
    ELSE LET r == DriveSymbols(SubSeq(drives, 1, Len(drives) - 1))
             x == drives[Len(drives)]
         IN  IF x = Zero \/ x \in Range(r) THEN r ELSE Append(r, x)

NoHole == [which |-> "none", row |-> 0, pos |-> 0]
FillCoeff(fill) == IF fill = "symbolic" THEN SymG ELSE Num(0, 1)

\* the terms of the equation of motion of Destroy(modes[jj])
EomTerms(m, modes, jj, noises, drives) ==
    [k \in 1..Len(modes) |-> Destroy(modes[k])]
    \o (IF m.kerr THEN [k \in 1..Len(modes) |-> CreateDestroyDestroy(modes[k], modes[jj])]
        ELSE <<>>)
    \o <<Create(modes[jj])>> \o noises \o DriveSymbols(drives) \o <<IdentityOperator>>

\* the terms of row j of L
LTerms(m, modes, drives) ==
    [k \in 1..Len(modes) |-> Destroy(modes[k])] \o DriveSymbols(drives) \o <<IdentityOperator>>

\* the addends with the hole filled in or left out
Pierce(m, which, row, ops) ==
    IF m.hole.which = which /\ m.hole.row = row
    THEN IF m.fill = "absent" THEN Drop(ops, m.hole.pos)
         ELSE [ops EXCEPT ![m.hole.pos] = ScalarTimesOperator(FillCoeff(m.fill), (IF @.kind = "ScalarTimesOperator" THEN @.term ELSE @))]
    ELSE ops

\* slh_input.symbolic_heisenberg_eom(Destroy(modes[jj]), noises=noises).expand().simplify_scalar()
symbolic_heisenberg_eom(m, modes, jj, noises, drives) ==
    LET terms == EomTerms(m, modes, jj, noises, drives)
    IN  AsSum(Pierce(m, "eom", jj, List([p \in 1..Len(terms) |-> Scaled(Num(p, jj - 1), terms[p])])))

\* slh_input.L.matrix[j, 0] (j counted from 1)
coherent_input_L(m, modes, j, drives) ==
    LET terms == LTerms(m, modes, drives)
    IN  AsSum(Pierce(m, "L", j, List([p \in 1..Len(terms) |-> Scaled(Num(p, -j), terms[p])])))

(***************************************************************************)
(* model_matrices.                                                         *)
(***************************************************************************)
\* a mutant of ninputs_of: the number of distinct input names
ninputs_of_names(dip) == Cardinality(Range(dip))

\* ninputs = len(dynamic_input_ports)
ninputs_of(dip) == Cardinality(DOMAIN dip)

\* a mutant of fill_inputs_extended: the symbols stored at their positions
\* in inputs instead of at their ports
fill_inputs_extended_packed(ie, inputs, keys) ==
    IF inputs = <<>> \/ keys = <<>> THEN ie
    ELSE [k \in 1..Len(ie) |-> IF k <= Len(inputs) THEN inputs[k] ELSE ie[k]]

\* for ii, n in zip(inputs, sorted(dynamic_input_ports.keys())): inputs_extended[n] = ii
RECURSIVE fill_inputs_extended(_, _, _)
fill_inputs_extended(ie, inputs, keys) ==
    IF inputs = <<>> \/ keys = <<>> THEN ie
    ELSE fill_inputs_extended([ie EXCEPT ![Head(keys) + 1] = Head(inputs)],
                              Tail(inputs), Tail(keys))

\* the test "inputs == 0" of the B_input loop: a list never equals 0
inputs_equal_zero(inputs) == FALSE

\* a mutant of A_entry: the row's mode instead of the column's
A_entry_row(coeffsjj, modes, jj, kk) == DictGet(coeffsjj, Destroy(modes[jj]))

\* A[jj, kk] = coeffsjj[Destroy(skk)]
A_entry(coeffsjj, modes, jj, kk) == DictGet(coeffsjj, Destroy(modes[kk]))

\* a mutant of A_kerr_entry: the division by -2j left out
A_kerr_entry_undivided(coeffsjj, modes, jj, kk) ==
    DictGet(coeffsjj, CreateDestroyDestroy(modes[kk], modes[jj]))

\* A_kerr[jj, kk] = coeffsjj[Create(skk) * Destroy(skk) * Destroy(sjj)]/-2j
A_kerr_entry(coeffsjj, modes, jj, kk) ==
    DivMinus2j(DictGet(coeffsjj, CreateDestroyDestroy(modes[kk], modes[jj])))

\* B[jj, kk] = coeffsjj[dAkk]
B_entry(coeffsjj, noises, kk) == DictGet(coeffsjj, noises[kk])

\* B_input[jj, kk] = coeffsjj[u_kk], unless inputs == 0
B_input_entry(coeffsjj, inputs, kk) ==
    IF inputs_equal_zero(inputs) THEN Zero ELSE DictGet(coeffsjj, inputs[kk])

\* a mutant of L_coeffs: the epsilon of model_matrices handed on
L_coeffs_epsilon(Ljj, eps) == get_coeffs(Ljj, eps)

\* coeffsjj = get_coeffs(Ljj): the epsilon of model_matrices is not handed
\* on, get_coeffs runs with its default epsilon = 0.
L_coeffs(Ljj, eps) == get_coeffs(Ljj, 0)

\* model_matrices up to its return statement
model_matrices_body(m, dip, akdc, eps) ==
    LET modes == sorted(m.space)
        ncav == Len(modes)
        cdim == m.cdim
        ninputs == ninputs_of(dip)
        D == m.S
        noises == List([n \in 1..cdim |-> NoiseSymbol(n - 1)])
        keys == sorted(DOMAIN dip)
        inputs == List([k \in 1..ninputs |-> InputSymbol(dip[keys[k]])])
        ie == fill_inputs_extended(List([n \in 1..cdim |-> Zero]), inputs, keys)
        eqs == List([jj \in 1..ncav |-> symbolic_heisenberg_eom(m, modes, jj, noises, ie)])
        L == List([j \in 1..cdim |-> coherent_input_L(m, modes, j, ie)])
        coeffs == List([jj \in 1..ncav |-> get_coeffs(eqs[jj], eps)])
        A == [jj \in 1..ncav |-> [kk \in 1..ncav |-> A_entry(coeffs[jj].ret, modes, jj, kk)]]
        A_kerr == [jj \in 1..ncav |-> [kk \in 1..ncav |->
                     A_kerr_entry(coeffs[jj].ret, modes, jj, kk)]]
        B == [jj \in 1..ncav |-> [kk \in 1..cdim |-> B_entry(coeffs[jj].ret, noises, kk)]]
        B_input == [jj \in 1..ncav |-> [kk \in 1..ninputs |->
                     B_input_entry(coeffs[jj].ret, inputs, kk)]]
        u_c == [jj \in 1..ncav |-> DictGet(coeffs[jj].ret, IdentityOperator)]
        Lcoeffs == List([j \in 1..cdim |-> L_coeffs(L[j], eps)])
        C == [j \in 1..cdim |-> [kk \in 1..ncav |-> DictGet(Lcoeffs[j].ret, Destroy(modes[kk]))]]
        U_c == [j \in 1..cdim |-> DictGet(Lcoeffs[j].ret, IdentityOperator)]
        D_input == [j \in 1..cdim |-> [kk \in 1..ninputs |-> DictGet(Lcoeffs[j].ret, inputs[kk])]]
        dAps == [j \in 1..cdim |->
                 AsSum([k \in 1..cdim |-> ScalarTimesOperator(m.S[j][k], noises[k])]
                       \o (IF L[j].kind = "OperatorPlus" THEN L[j].operands ELSE <<L[j]>>))]
        nine == <<A, B, C, D, A_kerr, B_input, D_input, u_c, U_c>>
    IN  [raised |-> (\E jj \in 1..ncav : coeffs[jj].raised) \/ (\E j \in 1..cdim : Lcoeffs[j].raised),
         inputs_extended |-> ie,
         eoms |-> eqs,
         L |-> L,
         nine |-> nine,
         dAps |-> dAps]

\* a mutant of model_matrices_return: the equations always appended
model_matrices_return_eoms(x, with_eoms) ==
    [raised |-> x.raised,
     inputs_extended |-> x.inputs_extended,
     eoms |-> x.eoms,
     L |-> x.L,
     matrices |-> x.nine \o <<x.eoms, x.dAps>>]

\* the return statement: eleven results with return_eoms, nine without
model_matrices_return(x, with_eoms) ==
    [raised |-> x.raised,
     inputs_extended |-> x.inputs_extended,
     eoms |-> x.eoms,
     L |-> x.L,
     matrices |-> IF with_eoms THEN x.nine \o <<x.eoms, x.dAps>> ELSE x.nine]

model_matrices(m, dip, akdc, eps, with_eoms) ==
    model_matrices_return(model_matrices_body(m, dip, akdc, eps), with_eoms)

(***************************************************************************)
(* Inputs of model_matrices.                                               *)
(***************************************************************************)
InputNames == {"x", "y"}
Fills == {"absent", "small", "symbolic"}

\* mode labels that differ from the modes' positions in the sorted list
Spaces == {{2 * k : k \in 1..n} : n \in 1..MaxModes}

\* S: cdim x cdim, every entry different
Scattering(cdim) == [j \in 1..cdim |-> [k \in 1..cdim |-> Num(j, k)]]

DynamicInputPorts(cdim) == UNION {[P -> InputNames] : P \in SUBSET (0..(cdim - 1))}

Holes(space, cdim, dip, kerr) ==
    LET ncav == Cardinality(space)
        nsym == Cardinality(Range(dip))
        neom == ncav + (IF kerr THEN ncav ELSE 0) + 1 + cdim + nsym + 1
        nL == ncav + nsym + 1
    IN  {NoHole}
        \cup {[which |-> "eom", row |-> r, pos |-> p] : r \in 1..ncav, p \in 1..neom}
        \cup {[which |-> "L", row |-> r, pos |-> p] : r \in 1..cdim, p \in 1..nL}

CoeffsIdle == expr = ZeroOperator /\ ret = EmptyDict

\* before the call of model_matrices
NotCalled ==
    /\ pc = "start"
    /\ epsilon = 0
    /\ apply_kerr_diagonal_correction = TRUE
    /\ return_eoms = FALSE
    /\ inputs_extended = <<>>
    /\ eoms = <<>>
    /\ slh_input_L = <<>>
    /\ matrices = <<>>
    /\ again = <<>>

InitModel ==
    /\ CoeffsIdle
    /\ SdeIdle
    /\ NotCalled
    /\ \E space \in Spaces, cdim \in 1..MaxPorts :
         \E dip \in DynamicInputPorts(cdim) :
           \E hole \in Holes(space, cdim, dip, TRUE) :
             \E fill \in IF hole = NoHole THEN {"none"} ELSE Fills :
               /\ slh = [space |-> space, cdim |-> cdim, S |-> Scattering(cdim),
                         kerr |-> TRUE, hole |-> hole, fill |-> fill]
               /\ dynamic_input_ports = dip

\* what the call model_matrices(slh, dynamic_input_ports, akdc, eps, with_eoms)
\* with the outcome r leaves behind
model_matrices_returns(akdc, eps, with_eoms, r) ==
    /\ apply_kerr_diagonal_correction' = akdc
    /\ return_eoms' = with_eoms
    /\ epsilon' = eps
    /\ inputs_extended' = r.inputs_extended
    /\ eoms' = r.eoms
    /\ slh_input_L' = r.L
    /\ matrices' = r.matrices

model_matrices_call ==
    /\ pc = "start"
    /\ \E akdc \in BOOLEAN, eps \in 0..MaxEps :
         \E x \in {model_matrices_body(slh, dynamic_input_ports, akdc, eps)} :
           \E with_eoms \in BOOLEAN :
             \E r \in {model_matrices_return(x, with_eoms)} :
               /\ model_matrices_returns(akdc, eps, with_eoms, r)
               /\ pc' = IF r.raised THEN "raised" ELSE "returned"
    /\ UNCHANGED <<slh, dynamic_input_ports, coeffs_vars, sde_vars, again>>

NextModel == model_matrices_call

SpecModel == InitModel /\ [][NextModel]_vars

(***************************************************************************)
(* Claims about model_matrices (under SpecModel).  The claims read the     *)
(* equations by their addends and the modes and ports by their rank,       *)
(* independently of get_coeffs and sorted.                                 *)
(***************************************************************************)
\* the k-th smallest element of S
NthSmallest(S, k) == CHOOSE x \in S : Cardinality({y \in S : y < x}) = k - 1

NCav == Cardinality(slh.space)
NInputs == Cardinality(DOMAIN dynamic_input_ports)
\* the mode of row or column k, the symbol of input column k
ModeAt(k) == NthSmallest(slh.space, k)
InputAt(k) == InputSymbol(dynamic_input_ports[NthSmallest(DOMAIN dynamic_input_ports, k)])

TermOccurs(e, t) == \E i \in 1..Len(AddendsOf(e)) : AddendTerm(AddendsOf(e)[i]) = t
\* the coefficient of t in e once the addends below eps are removed
\* (eps = 0 removes none)
CoeffIn(e, t, eps) == KeptSum(AddendsOf(e), t, eps)

\* x is the coefficient of t in e: a scalar, zero when t does not occur
IsCoeffOf(x, e, t, eps) ==
    /\ IsScalar(x)
    /\ x = CoeffIn(e, t, eps)
    /\ ~TermOccurs(e, t) => x = Num(0, 0)

\* C5: in the result, for every mode row: A[row, col] is the coefficient of
\* Destroy(mode col), B[row, col] that of the noise symbol of port col,
\* B_input[row, col] that of input symbol col, u_c[row] that of the
\* identity, each taken in the row's equation of motion (after the removal
\* of the addends below epsilon); an entry whose term does not occur is
\* zero, and every entry is a scalar.
C5_EntriesAreCoefficients ==
    pc = "returned" =>
        \A jj \in 1..NCav :
            /\ \A kk \in 1..NCav :
                  IsCoeffOf(matrices[1][jj][kk], eoms[jj], Destroy(ModeAt(kk)), epsilon)
            /\ \A kk \in 1..slh.cdim :
                  IsCoeffOf(matrices[2][jj][kk], eoms[jj], NoiseSymbol(kk - 1), epsilon)
            /\ \A kk \in 1..NInputs :
                  IsCoeffOf(matrices[6][jj][kk], eoms[jj], InputAt(kk), epsilon)
            /\ IsCoeffOf(matrices[8][jj], eoms[jj], IdentityOperator, epsilon)

\* two modes, one input; Destroy of the second mode is missing from the
\* first equation, so A[1, 2] is zero beside non-zero entries
C5_Witness ==
    /\ pc = "returned" /\ epsilon = 0 /\ NCav = 2 /\ NInputs = 1
    /\ ~TermOccurs(eoms[1], Destroy(ModeAt(2)))
    /\ matrices[1][1][2] = Num(0, 0)
    /\ matrices[1][2][1] # Num(0, 0) /\ matrices[1][2][1] # matrices[1][1][1]
    /\ matrices[2][1][1] # Num(0, 0)
    /\ matrices[6][1][1] # Num(0, 0)
    /\ matrices[8][1] # Num(0, 0)

\* M has r rows of c entries each
HasShape(M, r, c) == Len(M) = r /\ \A i \in 1..r : Len(M[i]) = c

\* C7: A is ncav x ncav, B ncav x cdim, C cdim x ncav, D cdim x cdim,
\* A_kerr ncav x ncav, u_c of length ncav, U_c of length cdim, B_input
\* ncav x ninputs and D_input cdim x ninputs, ninputs being
\* len(dynamic_input_ports).
C7_Shapes ==
    pc = "returned" =>
        /\ HasShape(matrices[1], NCav, NCav)
        /\ HasShape(matrices[2], NCav, slh.cdim)
        /\ HasShape(matrices[3], slh.cdim, NCav)
        /\ HasShape(matrices[4], slh.cdim, slh.cdim)
        /\ HasShape(matrices[5], NCav, NCav)
        /\ HasShape(matrices[6], NCav, NInputs)
        /\ HasShape(matrices[7], slh.cdim, NInputs)
        /\ Len(matrices[8]) = NCav
        /\ Len(matrices[9]) = slh.cdim

\* more ports than modes, and two inputs of one name
C7_Witness ==
    /\ pc = "returned" /\ NCav = 1 /\ slh.cdim = 2 /\ NInputs = 2
    /\ Cardinality(Range(dynamic_input_ports)) = 1
    /\ HasShape(matrices[6], 1, 2) /\ HasShape(matrices[7], 2, 2)

\* C8: the list handed to coherent_input has length cdim, holds the input
\* symbol named for port p at index p for every key p of
\* dynamic_input_ports and zero at every other index; column k of B_input
\* and of D_input belongs to the symbol of the k-th smallest port.
C8_DynamicInputs ==
    pc = "returned" =>
        /\ Len(inputs_extended) = slh.cdim
        /\ \A p \in 0..(slh.cdim - 1) :
              inputs_extended[p + 1] =
                  IF p \in DOMAIN dynamic_input_ports
                  THEN InputSymbol(dynamic_input_ports[p]) ELSE Num(0, 0)
        /\ \A k \in 1..NInputs :
              /\ \A jj \in 1..NCav :
                    matrices[6][jj][k] = CoeffIn(eoms[jj], InputAt(k), epsilon)
              /\ \A j \in 1..slh.cdim :
                    matrices[7][j][k] = CoeffIn(slh_input_L[j], InputAt(k), 0)

\* only the second port is driven
C8_Witness ==
    /\ pc = "returned" /\ slh.cdim = 2 /\ DOMAIN dynamic_input_ports = {1}
    /\ inputs_extended = <<Num(0, 0), InputSymbol(dynamic_input_ports[1])>>
    /\ matrices[7][2][1] # Num(0, 0)

(***************************************************************************)
(* model_matrices_complex and prepare_sde.  Arrays of numbers: a matrix is *)
(* a sequence of rows, a vector a sequence of scalars.                     *)
(***************************************************************************)
MaxTime == 1

RECURSIVE SumTo(_, _)
SumTo(v, n) == IF n = 0 THEN Zero ELSE SAdd(SumTo(v, n - 1), v[n])

\* M.dot(v) of a matrix and a vector
dot(M, v) == [j \in 1..Len(M) |-> SumTo([k \in 1..Len(v) |-> SMul(M[j][k], v[k])], Len(v))]

\* u * v, u + v, u - v, c * v of arrays: element by element
times(u, v) == [j \in 1..Len(u) |-> SMul(u[j], v[j])]
plus(u, v) == [j \in 1..Len(u) |-> SAdd(u[j], v[j])]
minus(u, v) == [j \in 1..Len(u) |-> SSub(u[j], v[j])]
scale(c, v) == [j \in 1..Len(v) |-> SMul(c, v[j])]

\* a.conjugate()
conjugate(v) == [j \in 1..Len(v) |-> SConj(v[j])]

\* the entries of an array of any shape
Entries(arr) ==
    IF IsScalar(arr) THEN {arr}
    ELSE UNION {IF IsScalar(arr[j]) THEN {arr[j]} ELSE Range(arr[j]) : j \in DOMAIN arr}

\* arr.astype(complex): an entry that holds a free symbol has no complex value
astype_complex(arr) ==
    IF \E c \in Entries(arr) : complex(c) = TypeError
    THEN [raised |-> TRUE, array |-> <<>>]
    ELSE [raised |-> FALSE, array |-> arr]

\* model_matrices_complex(*args, **kwargs): the first nine results converted,
\* the others passed on.  D is slh.S, a Matrix of the algebra engine; its
\* conversion is taken to be that of an array.
model_matrices_complex(m, dip, akdc, eps, with_eoms) ==
    LET r == model_matrices(m, dip, akdc, eps, with_eoms)
        conv == List([n \in 1..9 |-> astype_complex(r.matrices[n])])
        rest == SubSeq(r.matrices, 10, Len(r.matrices))
    IN  [raised |-> r.raised \/ \E n \in 1..9 : conv[n].raised,
         inner |-> r,
         matrices |-> List([n \in 1..9 |-> conv[n].array]) \o rest]

\* B/2.
B_over_2_of(B) == [j \in 1..Len(B) |-> [k \in 1..Len(B[j]) |-> SHalf(B[j][k])]]

\* u_c.ravel()
ravel(u_c) == u_c

\* a mutant of kerr_term: the Kerr vector contracted with a in a second product
kerr_term_dot(A_kerr, av) ==
    LET k == dot(A_kerr, times(conjugate(av), av))
    IN  [j \in 1..Len(av) |-> SumTo(times(k, av), Len(av))]

\* (A_kerr.dot(a.conjugate() * a)) * a
kerr_term(A_kerr, av) == times(dot(A_kerr, times(conjugate(av), av)), av)

\* f(a, t) = A.dot(a) - 2j * (A_kerr.dot(a.conjugate() * a)) * a + u_c
\*           + B_input.dot(input_fn(t))
f(cl, av, tv) ==
    plus(plus(minus(dot(cl.A, av), scale(Num(0, 2), kerr_term(cl.A_kerr, av))), cl.u_c),
         dot(cl.B_input, cl.input_fn[tv]))

\* g(a, t) = B_over_2
g(cl, av, tv) == cl.B_over_2

(***************************************************************************)
(* Inputs of prepare_sde.                                                  *)
(***************************************************************************)
Times == 0..MaxTime
Amplitudes == {Num(1, 1), Num(0, -1)}

\* drives: a constant one and one that changes with time and differs by port
InputFns(ninputs) ==
    {[tv \in Times |-> [k \in 1..ninputs |-> Num(1, 0)]],
     [tv \in Times |-> [k \in 1..ninputs |-> Num(tv + 1, k)]]}

StateVectors(ncav) == [1..ncav -> Amplitudes]

\* the Kerr terms of the equations of motion: all there, or one of them
\* absent, small or symbolic, or the system has none
KerrHoles(space) ==
    LET ncav == Cardinality(space)
    IN  {NoHole} \cup {[which |-> "eom", row |-> r, pos |-> ncav + p] : r \in 1..ncav, p \in 1..ncav}

\* any set of driven ports, the names alternating with the port
DrivenPorts(cdim) ==
    {[p \in P |-> IF p % 2 = 0 THEN "x" ELSE "y"] : P \in SUBSET (0..(cdim - 1))}

InitSde ==
    /\ CoeffsIdle
    /\ SdeIdle
    /\ NotCalled
    /\ \E space \in Spaces, cdim \in 1..MaxPorts, kerr \in BOOLEAN :
         \E dip \in DrivenPorts(cdim) :
           \E hole \in IF kerr THEN KerrHoles(space) ELSE {NoHole} :
             \E fill \in IF hole = NoHole THEN {"none"} ELSE Fills :
               /\ slh = [space |-> space, cdim |-> cdim, S |-> Scattering(cdim),
                         kerr |-> kerr, hole |-> hole, fill |-> fill]
               /\ dynamic_input_ports = dip

\* model_matrices_complex(slh, dynamic_input_ports, epsilon=eps)
model_matrices_complex_call ==
    /\ pc = "start"
    /\ \E eps \in 0..MaxEps :
         \E r \in {model_matrices_complex(slh, dynamic_input_ports, TRUE, eps, FALSE)} :
             /\ model_matrices_returns(TRUE, eps, FALSE, r.inner)
             /\ pc' = IF r.raised THEN "raised" ELSE "complex"
             /\ numeric_model_matrices' = IF r.raised THEN <<>> ELSE r.matrices
    /\ UNCHANGED <<slh, dynamic_input_ports, coeffs_vars, input_fn, closure, f_a, f_t, f_value, again>>

\* prepare_sde(numeric_model_matrices, input_fn)
prepare_sde_call ==
    /\ pc = "complex"
    /\ \E fn \in InputFns(Len(numeric_model_matrices[6][1])) :
         /\ input_fn' = fn
         /\ closure' = [A |-> numeric_model_matrices[1],
                        B_over_2 |-> B_over_2_of(numeric_model_matrices[2]),
                        A_kerr |-> numeric_model_matrices[5],
                        B_input |-> numeric_model_matrices[6],
                        u_c |-> ravel(numeric_model_matrices[8]),
                        input_fn |-> fn]
    /\ pc' = "prepared"
    /\ UNCHANGED <<epsilon, coeffs_vars, model_vars, numeric_model_matrices, f_a, f_t, f_value, again>>

\* f(a, t) of the returned pair
f_call ==
    /\ pc = "prepared"
    /\ \E av \in StateVectors(Len(closure.A)), tv \in Times :
         /\ f_a' = av
         /\ f_t' = tv
         /\ f_value' = f(closure, av, tv)
    /\ pc' = "f_returned"
    /\ UNCHANGED <<epsilon, coeffs_vars, model_vars, numeric_model_matrices, input_fn, closure, again>>

\* g(a, t) of the returned pair
g_call ==
    /\ pc = "prepared"
    /\ \E av \in StateVectors(Len(closure.A)), tv \in Times :
         /\ f_a' = av
         /\ f_t' = tv
         /\ f_value' = g(closure, av, tv)
    /\ pc' = "g_returned"
    /\ UNCHANGED <<epsilon, coeffs_vars, model_vars, numeric_model_matrices, input_fn, closure, again>>

NextSde == model_matrices_complex_call \/ prepare_sde_call \/ f_call \/ g_call

SpecSde == InitSde /\ [][NextSde]_vars

(***************************************************************************)
(* Claims about A_kerr and the drift of prepare_sde.                       *)
(***************************************************************************)
\* the term of the Kerr coupling of mode col in the equation of mode row
CubicTerm(row, col) == CreateDestroyDestroy(ModeAt(col), ModeAt(row))

\* no equation of motion holds a cubic term
NoCubicTerm ==
    \A row \in 1..NCav, col \in 1..NCav : ~TermOccurs(eoms[row], CubicTerm(row, col))

\* |c|^2 of a numeric c
AbsSq(c) == Norm([re |-> c.re * c.re + c.im * c.im, im |-> 0, sre |-> 0, sim |-> 0, d |-> c.d * c.d])

\* sum over k = 1..n of M[j, k] * v[k]
RECURSIVE RowTimes(_, _, _, _)
RowTimes(M, j, v, n) ==
    IF n = 0 THEN Num(0, 0) ELSE SAdd(RowTimes(M, j, v, n - 1), SMul(M[j][n], v[n]))

\* component j of A.a + u_c + B_input.input_fn(t), from the numeric matrices
LinearDrift(j) ==
    SAdd(SAdd(RowTimes(numeric_model_matrices[1], j, f_a, NCav), numeric_model_matrices[8][j]),
         RowTimes(numeric_model_matrices[6], j, input_fn[f_t], NInputs))

\* component j of the Kerr term: -2i * a_j * sum over k of A_kerr[j, k] * |a_k|^2
KerrDrift(j) ==
    SMul(SMul(Num(0, -2), f_a[j]),
         RowTimes(numeric_model_matrices[5], j, [k \in 1..NCav |-> AbsSq(f_a[k])], NCav))

\* C6: A_kerr[row, col] is the coefficient of
\* Create(col) * Destroy(col) * Destroy(row) in the equation of motion of mode
\* row divided by -2i; when no equation holds such a cubic term A_kerr is all
\* zero and the drift is A.a + u_c + B_input.input_fn(t).
C6_KerrMatrix ==
    /\ pc # "start" =>
         \A row \in 1..NCav, col \in 1..NCav :
            /\ IsScalar(matrices[5][row][col])
            /\ SMul(matrices[5][row][col], Num(0, -2))
                 = CoeffIn(eoms[row], CubicTerm(row, col), epsilon)
    /\ (pc # "start" /\ NoCubicTerm) =>
         \A row \in 1..NCav, col \in 1..NCav : matrices[5][row][col] = Num(0, 0)
    /\ (pc = "f_returned" /\ NoCubicTerm) =>
         /\ Len(f_value) = NCav
         /\ \A j \in 1..NCav : f_value[j] = LinearDrift(j)

\* the drift of a two-mode model without cubic terms, driven through an input
C6_Witness ==
    /\ pc = "f_returned"
    /\ NoCubicTerm
    /\ NCav = 2
    /\ NInputs >= 1
    /\ \E j \in 1..NCav : f_value[j] # Num(0, 0)

\* C9: for every state vector a and time t, component j of f(a, t) is
\* sum_k A[j,k] a_k - 2i a_j sum_k A_kerr[j,k] |a_k|^2 + u_c[j]
\* + sum_k B_input[j,k] input_fn(t)[k]: the Kerr term multiplies element by
\* element, it is no second matrix product.
C9_DriftFormula ==
    pc = "f_returned" =>
        /\ Len(f_value) = NCav
        /\ \A j \in 1..NCav : f_value[j] = SAdd(LinearDrift(j), KerrDrift(j))

\* the drift of a two-mode model with Kerr couplings, at a state whose two
\* amplitudes differ
C9_Witness ==
    /\ pc = "f_returned"
    /\ NCav = 2
    /\ NInputs >= 1
    /\ f_a[1] # f_a[2]
    /\ \A j \in 1..NCav : KerrDrift(j) # Num(0, 0)
    /\ KerrDrift(1) # KerrDrift(2)

(***************************************************************************)
(* Two calls of model_matrices on the same model and the same ports.       *)
(***************************************************************************)
\* one coefficient of the first row of L, or the first of the first equation
\* of motion, made small or symbolic
PairHoles(space, dip) ==
    LET nL == Cardinality(space) + Cardinality(Range(dip)) + 1
    IN  {NoHole}
        \cup {[which |-> "L", row |-> 1, pos |-> p] : p \in 1..nL}
        \cup {[which |-> "eom", row |-> 1, pos |-> 1]}

InitPair ==
    /\ CoeffsIdle
    /\ SdeIdle
    /\ NotCalled
    /\ \E space \in Spaces, cdim \in 1..MaxPorts :
         \E dip \in DrivenPorts(cdim) :
           \E hole \in PairHoles(space, dip) :
             \E fill \in IF hole = NoHole THEN {"none"} ELSE {"small", "symbolic"} :
               /\ slh = [space |-> space, cdim |-> cdim, S |-> Scattering(cdim),
                         kerr |-> TRUE, hole |-> hole, fill |-> fill]
               /\ dynamic_input_ports = dip

\* model_matrices(slh, dynamic_input_ports, akdc, eps, with_eoms) once more,
\* with arguments of its own
model_matrices_call_again ==
    /\ pc = "returned"
    /\ \E akdc \in BOOLEAN, eps \in 0..MaxEps :
         \E x \in {model_matrices_body(slh, dynamic_input_ports, akdc, eps)} :
           \E with_eoms \in BOOLEAN :
             \E r \in {model_matrices_return(x, with_eoms)} :
               /\ again' = [apply_kerr_diagonal_correction |-> akdc,
                            epsilon |-> eps,
                            return_eoms |-> with_eoms,
                            eoms |-> r.eoms,
                            matrices |-> r.matrices]
               /\ pc' = IF r.raised THEN "raised" ELSE "returned_again"
    /\ UNCHANGED <<epsilon, coeffs_vars, model_vars, sde_vars>>

NextPair == model_matrices_call \/ model_matrices_call_again

SpecPair == InitPair /\ [][NextPair]_vars

(***************************************************************************)
(* Claims about the arguments epsilon, apply_kerr_diagonal_correction and  *)
(* return_eoms.                                                            *)
(***************************************************************************)
\* the places of C, D, D_input and U_c in the returned tuple
OutputPlaces == {3, 4, 7, 9}

\* C11: C, U_c and D_input are read from L without truncation and D is the
\* scattering matrix, so two calls on the same model and ports return the
\* same C, D, D_input and U_c whatever their epsilons are.
C11_EpsilonOnlyInEoms ==
    pc = "returned_again" =>
        /\ \A i \in OutputPlaces : again.matrices[i] = matrices[i]
        /\ matrices[4] = slh.S
        /\ \A j \in 1..slh.cdim :
              /\ \A kk \in 1..NCav :
                    matrices[3][j][kk] = CoeffIn(slh_input_L[j], Destroy(ModeAt(kk)), 0)
              /\ \A kk \in 1..NInputs :
                    matrices[7][j][kk] = CoeffIn(slh_input_L[j], InputAt(kk), 0)
              /\ matrices[9][j] = CoeffIn(slh_input_L[j], IdentityOperator, 0)

\* a call with epsilon = 0 and one with epsilon = MaxEps: the small
\* coefficient of L stays in C in both, while A loses an entry
C11_Witness ==
    /\ pc = "returned_again"
    /\ epsilon = 0 /\ again.epsilon = MaxEps
    /\ slh.hole.which = "L" /\ slh.fill = "small"
    /\ matrices[3][1][1] = Num(0, 1)
    /\ again.matrices[3][1][1] = Num(0, 1)
    /\ MagBelow(matrices[3][1][1], again.epsilon)
    /\ matrices[1][1][1] # Num(0, 0)
    /\ again.matrices[1][1][1] = Num(0, 0)

====
